---------------------------- MODULE Spec2Model ----------------------------
(***************************************************************************)
(* Que Bella: the relational schema of src/frontend/src/App.js (tables,    *)
(* uniqueness constraints and row-level security policies, lines 639-1029) *)
(* and the requests of the single-page client (lines 1-637), as a state    *)
(* machine.  A request is one action: it evaluates the policies of the     *)
(* table for the requesting identity, then the constraints, and either     *)
(* changes the store or leaves it alone; its outcome is recorded in resp.  *)
(***************************************************************************)
EXTENDS Integers, FiniteSets, Sequences, TLC

VARIABLES
    profiles,            \* profiles table: id -> [partner_id, invite_code]
    journal_entries,     \* journal_entries table: a set of rows
    mood_entries,        \* mood_entries table: a set of rows
    shared_reflections,  \* shared_reflections table: a set of rows
    entry_access_logs,   \* entry_access_logs table: a set of rows
    private_notes,       \* private_notes table: a set of rows
    resp,                \* the last request and its outcome
    inserting,           \* profile rows past the BEFORE INSERT trigger, not yet stored
    auth,                \* AuthProvider: its state, localStorage, the axios header
    app,                 \* JournalApp: its state and its requests in flight
    objects              \* storage.objects: a set of rows [bucket_id, name]

vars == << profiles, journal_entries, mood_entries, shared_reflections,
           entry_access_logs, private_notes, resp, inserting, auth, app,
           objects >>

-----------------------------------------------------------------------------
(* Bounds and input sets *)

\* uuid values available to uuid_generate_v4() for entry rows
MaxIds == 2

Ids == 1..MaxIds

\* rows the shared_reflections table may hold
MaxReflections == 2

\* rows the entry_access_logs table may hold
MaxLogs == 2

\* rows the private_notes table may hold
MaxNotes == 2

\* identities of auth.users; every one has a profile row
Users == {"ua", "ub", "uc"}

Dates == {"d1", "d2"}

NULL == "null"

\* a uuid that is no row of auth.users
NoSuchUser == "ux"

\* the request made with the service key: auth.uid() is NULL, auth.role() is service_role
SERVICE == "service"

\* the request made with the public key and no session: auth.uid() is NULL, auth.role() is anon
ANON == "anon"

\* auth.uid() of a requester
AuthUid(by) == IF by \in Users THEN by ELSE NULL

\* auth.role() of a requester
AuthRole(by) ==
    IF by = SERVICE THEN "service_role"
    ELSE IF by = ANON THEN "anon"
    ELSE "authenticated"

\* SQL equality under a policy: a comparison with NULL is not true
SqlEq(a, b) == a # NULL /\ b # NULL /\ a = b

\* invite code of each profile (a value of generate_invite_code, unique per profile)
\* chars of generate_invite_code
chars == << "A", "B", "C", "D", "E", "F", "G", "H", "I", "J", "K", "L", "M",
            "N", "O", "P", "Q", "R", "S", "T", "U", "V", "W", "X", "Y", "Z",
            "0", "1", "2", "3", "4", "5", "6", "7", "8", "9" >>

\* FOR i IN 1..8 LOOP
CodeLength == 8

\* the values of floor(random() * length(chars) + 1) that are followed: one
\* value per call of generate_invite_code, drawn in each of its iterations
RandomDraws == {1, 2, 3, Len(chars)}

\* generate_invite_code(): the results it can return, a text built of
\* CodeLength characters of chars
generate_invite_code == {[i \in 1..CodeLength |-> chars[k]] : k \in RandomDraws}

\* an empty text
Blank == << >>

CodeOf(u) ==
    [i \in 1..CodeLength |-> IF u = "ua" THEN "A" ELSE IF u = "ub" THEN "B" ELSE "C"]

\* codes a user may type into the invite form
Codes == {CodeOf(u) : u \in Users} \cup {[i \in 1..CodeLength |-> "9"], Blank}

\* ids in use by some row of the entry stores
UsedIds == {e.id : e \in journal_entries} \cup {e.id : e \in mood_entries}

\* uuid_generate_v4(): a value no row holds
FreshId == CHOOSE i \in Ids : i \notin UsedIds

Response(by, op, status, rows) ==
    [by |-> by, op |-> op, status |-> status, rows |-> rows]

-----------------------------------------------------------------------------
(* journal_entries: constraint and policies *)

\* UNIQUE(user_id, date): would adding row to rows break it
JournalUniqueViolationMutant(rows, row) == FALSE

JournalUniqueViolation(rows, row) ==
    \E e \in rows : e.user_id = row.user_id /\ e.date = row.date

\* "Users can view own and shared journal entries"
JournalSelectUsingMutant(by, row) ==
    \/ SqlEq(AuthUid(by), row.user_id)
    \/ AuthUid(by) \in row.shared_with
    \/ (by \in DOMAIN profiles /\ SqlEq(profiles[by].partner_id, row.user_id))

JournalSelectUsing(by, row) ==
    \/ SqlEq(AuthUid(by), row.user_id)
    \/ AuthUid(by) \in row.shared_with

\* "Users can insert own journal entries"
JournalInsertCheck(by, row) == SqlEq(AuthUid(by), row.user_id)

\* "Users can update own journal entries": USING, and with no WITH CHECK clause
\* the same expression is applied to the updated row
JournalUpdateUsingMutant(by, row) ==
    \/ SqlEq(AuthUid(by), row.user_id)
    \/ AuthUid(by) \in row.shared_with

JournalUpdateUsing(by, row) == SqlEq(AuthUid(by), row.user_id)

\* "Users can delete own journal entries"
JournalDeleteUsing(by, row) == SqlEq(AuthUid(by), row.user_id)

JournalRow(id, user_id, date, content, shared_with) ==
    [id |-> id, user_id |-> user_id, date |-> date, content |-> content,
     shared_with |-> shared_with]

\* INSERT INTO journal_entries by an end user
JournalInsert(by, user_id, date, content, shared_with) ==
    LET row == JournalRow(IF UsedIds = Ids THEN 0 ELSE FreshId,
                          user_id, date, content, shared_with)
    IN  /\ IF ~JournalInsertCheck(by, row)
             THEN /\ resp' = Response(by, "journal.insert", "denied", {})
                  /\ UNCHANGED journal_entries
             ELSE IF JournalUniqueViolation(journal_entries, row)
             THEN /\ resp' = Response(by, "journal.insert", "conflict", {})
                  /\ UNCHANGED journal_entries
             ELSE /\ UsedIds # Ids
                  /\ journal_entries' = journal_entries \cup {row}
                  /\ resp' = Response(by, "journal.insert", "ok", {})
        /\ UNCHANGED << profiles, mood_entries, shared_reflections,
                        entry_access_logs, private_notes,
                        inserting, auth, app, objects >>

\* UPDATE journal_entries SET col = val WHERE id = id, by an end user
JournalUpdate(by, id, col, val) ==
    LET hit == {e \in journal_entries :
                   e.id = id /\ JournalSelectUsing(by, e) /\ JournalUpdateUsing(by, e)}
        old == CHOOSE e \in hit : TRUE
        new == [old EXCEPT ![col] = val]
    IN  /\ IF hit = {}
             THEN /\ resp' = Response(by, "journal.update", "denied", {})
                  /\ UNCHANGED journal_entries
             ELSE IF ~JournalUpdateUsing(by, new)
             THEN /\ resp' = Response(by, "journal.update", "denied", {})
                  /\ UNCHANGED journal_entries
             ELSE IF JournalUniqueViolation(journal_entries \ hit, new)
             THEN /\ resp' = Response(by, "journal.update", "conflict", {})
                  /\ UNCHANGED journal_entries
             ELSE /\ journal_entries' = (journal_entries \ hit) \cup {new}
                  /\ resp' = Response(by, "journal.update", "ok", {})
        /\ UNCHANGED << profiles, mood_entries, shared_reflections,
                        entry_access_logs, private_notes,
                        inserting, auth, app, objects >>

\* DELETE FROM journal_entries WHERE id = id, by an end user
JournalDelete(by, id) ==
    LET hit == {e \in journal_entries :
                   e.id = id /\ JournalSelectUsing(by, e) /\ JournalDeleteUsing(by, e)}
    IN  /\ IF hit = {}
             THEN /\ resp' = Response(by, "journal.delete", "denied", {})
                  /\ UNCHANGED journal_entries
             ELSE /\ journal_entries' = journal_entries \ hit
                  /\ resp' = Response(by, "journal.delete", "ok", {})
        /\ UNCHANGED << profiles, mood_entries, shared_reflections,
                        entry_access_logs, private_notes,
                        inserting, auth, app, objects >>

\* SELECT id FROM journal_entries, by an end user: the rows the policy lets through
JournalSelect(by) ==
    /\ resp' = Response(by, "journal.select", "ok",
                        {e.id : e \in {x \in journal_entries : JournalSelectUsing(by, x)}})
    /\ UNCHANGED << profiles, journal_entries, mood_entries, shared_reflections,
                    entry_access_logs, private_notes,
                    inserting, auth, app, objects >>

-----------------------------------------------------------------------------
(* mood_entries: constraint and policies *)

\* UNIQUE(user_id, date): would adding row to rows break it
MoodUniqueViolation(rows, row) ==
    \E e \in rows : e.user_id = row.user_id /\ e.date = row.date

\* "Users can view own and shared mood entries"
MoodSelectUsing(by, row) ==
    \/ SqlEq(AuthUid(by), row.user_id)
    \/ AuthUid(by) \in row.shared_with

\* "Users can insert own mood entries"
MoodInsertCheck(by, row) == SqlEq(AuthUid(by), row.user_id)

\* "Users can update own mood entries": USING, applied to the updated row as well
MoodUpdateUsing(by, row) == SqlEq(AuthUid(by), row.user_id)

\* "Users can delete own mood entries"
MoodDeleteUsing(by, row) == SqlEq(AuthUid(by), row.user_id)

MoodRow(id, user_id, date, mood, shared_with) ==
    [id |-> id, user_id |-> user_id, date |-> date, mood |-> mood,
     shared_with |-> shared_with]

\* INSERT INTO mood_entries by an end user
MoodInsert(by, user_id, date, mood, shared_with) ==
    LET row == MoodRow(IF UsedIds = Ids THEN 0 ELSE FreshId,
                       user_id, date, mood, shared_with)
    IN  /\ IF ~MoodInsertCheck(by, row)
             THEN /\ resp' = Response(by, "mood.insert", "denied", {})
                  /\ UNCHANGED mood_entries
             ELSE IF MoodUniqueViolation(mood_entries, row)
             THEN /\ resp' = Response(by, "mood.insert", "conflict", {})
                  /\ UNCHANGED mood_entries
             ELSE /\ UsedIds # Ids
                  /\ mood_entries' = mood_entries \cup {row}
                  /\ resp' = Response(by, "mood.insert", "ok", {})
        /\ UNCHANGED << profiles, journal_entries, shared_reflections,
                        entry_access_logs, private_notes,
                        inserting, auth, app, objects >>

\* UPDATE mood_entries SET col = val WHERE id = id, by an end user
MoodUpdate(by, id, col, val) ==
    LET hit == {e \in mood_entries :
                   e.id = id /\ MoodSelectUsing(by, e) /\ MoodUpdateUsing(by, e)}
        old == CHOOSE e \in hit : TRUE
        new == [old EXCEPT ![col] = val]
    IN  /\ IF hit = {}
             THEN /\ resp' = Response(by, "mood.update", "denied", {})
                  /\ UNCHANGED mood_entries
             ELSE IF ~MoodUpdateUsing(by, new)
             THEN /\ resp' = Response(by, "mood.update", "denied", {})
                  /\ UNCHANGED mood_entries
             ELSE IF MoodUniqueViolation(mood_entries \ hit, new)
             THEN /\ resp' = Response(by, "mood.update", "conflict", {})
                  /\ UNCHANGED mood_entries
             ELSE /\ mood_entries' = (mood_entries \ hit) \cup {new}
                  /\ resp' = Response(by, "mood.update", "ok", {})
        /\ UNCHANGED << profiles, journal_entries, shared_reflections,
                        entry_access_logs, private_notes,
                        inserting, auth, app, objects >>

\* DELETE FROM mood_entries WHERE id = id, by an end user
MoodDelete(by, id) ==
    LET hit == {e \in mood_entries :
                   e.id = id /\ MoodSelectUsing(by, e) /\ MoodDeleteUsing(by, e)}
    IN  /\ IF hit = {}
             THEN /\ resp' = Response(by, "mood.delete", "denied", {})
                  /\ UNCHANGED mood_entries
             ELSE /\ mood_entries' = mood_entries \ hit
                  /\ resp' = Response(by, "mood.delete", "ok", {})
        /\ UNCHANGED << profiles, journal_entries, shared_reflections,
                        entry_access_logs, private_notes,
                        inserting, auth, app, objects >>

\* SELECT id FROM mood_entries, by an end user: the rows the policy lets through
MoodSelect(by) ==
    /\ resp' = Response(by, "mood.select", "ok",
                        {e.id : e \in {x \in mood_entries : MoodSelectUsing(by, x)}})
    /\ UNCHANGED << profiles, journal_entries, mood_entries, shared_reflections,
                    entry_access_logs, private_notes,
                    inserting, auth, app, objects >>

-----------------------------------------------------------------------------
(* profiles and the invite-link request *)

\* the profile whose invite_code is code, or NULL
ProfileByInviteCode(code) ==
    IF \E u \in DOMAIN profiles : profiles[u].invite_code = code
    THEN CHOOSE u \in DOMAIN profiles : profiles[u].invite_code = code
    ELSE NULL

\* the link transition of the API behind POST /api/invite-partner: the code must
\* resolve to a distinct, currently unlinked profile and the requester must be
\* unlinked; then both partner references are set in one transaction
LinkAcceptedMutant(by, target) ==
    /\ by \in DOMAIN profiles
    /\ target # NULL
    /\ target # by
    /\ profiles[target].partner_id = NULL

LinkAccepted(by, target) ==
    /\ by \in DOMAIN profiles
    /\ target # NULL
    /\ target # by
    /\ profiles[by].partner_id = NULL
    /\ profiles[target].partner_id = NULL

LinkedProfiles(by, target) ==
    [u \in DOMAIN profiles |->
        IF u = by THEN [profiles[u] EXCEPT !.partner_id = target]
        ELSE IF u = target THEN [profiles[u] EXCEPT !.partner_id = by]
        ELSE profiles[u]]

\* invitePartner of the client: no request for a blank code, else POST /api/invite-partner
InvitePartner(by, inviteCode) ==
    /\ inviteCode # Blank
    /\ LET target == ProfileByInviteCode(inviteCode)
       IN  IF LinkAccepted(by, target)
           THEN /\ profiles' = LinkedProfiles(by, target)
                /\ resp' = Response(by, "invite-partner", "ok", {target})
           ELSE /\ UNCHANGED profiles
                /\ resp' = Response(by, "invite-partner", "rejected", {})
    /\ UNCHANGED << journal_entries, mood_entries, shared_reflections,
                    entry_access_logs, private_notes,
                    inserting, auth, app, objects >>

\* "Users can view own and partner profile"
ProfileSelectUsing(by, id) ==
    \/ SqlEq(AuthUid(by), id)
    \/ SqlEq(AuthUid(by), profiles[id].partner_id)
    \/ (by \in DOMAIN profiles /\ SqlEq(id, profiles[by].partner_id))

\* "Users can update own profile": USING, applied to the updated row as well
ProfileUpdateUsing(by, id) == SqlEq(AuthUid(by), id)

\* partner_id UUID REFERENCES profiles(id): NULL or an existing profile
PartnerForeignKey(val) == val = NULL \/ val \in DOMAIN profiles

\* the relations read by subqueries inside the SELECT policies of a relation:
\* the profiles policy reads profiles (SELECT partner_id FROM profiles ...), and
\* so does the policy for viewing audio objects
SelectPolicyReadsMutant(rel) == {}

SelectPolicyReads(rel) ==
    IF rel = "profiles" THEN {"profiles"}
    ELSE IF rel = "storage.objects" THEN {"profiles"}
    ELSE {}

\* PostgreSQL expands the policies of every relation a statement reads,
\* subqueries of policies included, before it runs the statement, and rejects
\* the statement ("infinite recursion detected in policy for relation") when
\* the expansion of a relation's policy reaches that relation again
RECURSIVE PolicyRecursion(_, _)
PolicyRecursion(rel, activeRIRs) ==
    \/ rel \in activeRIRs
    \/ \E r \in SelectPolicyReads(rel) : PolicyRecursion(r, activeRIRs \cup {rel})

\* the service key bypasses row level security
BypassRls(by) == AuthRole(by) = "service_role"

\* SELECT id FROM profiles
ProfileSelect(by) ==
    /\ IF ~BypassRls(by) /\ PolicyRecursion("profiles", {})
         THEN resp' = Response(by, "profiles.select", "error", {})
         ELSE resp' = Response(by, "profiles.select", "ok",
                         {p \in DOMAIN profiles : BypassRls(by) \/ ProfileSelectUsing(by, p)})
    /\ UNCHANGED << profiles, journal_entries, mood_entries, shared_reflections,
                    entry_access_logs, private_notes,
                    inserting, auth, app, objects >>

\* UPDATE profiles SET partner_id = val [WHERE id = id], by an end user; id is
\* NULL for the statement without WHERE clause.  A WHERE clause reads a column,
\* so the SELECT policy is applied in addition to the UPDATE policy.
ProfileUpdatePartner(by, id, val) ==
    LET hit == {p \in DOMAIN profiles :
                   /\ ProfileUpdateUsing(by, p)
                   /\ id # NULL => (p = id /\ ProfileSelectUsing(by, p))}
    IN  /\ IF id # NULL /\ PolicyRecursion("profiles", {})
             THEN /\ resp' = Response(by, "profiles.update", "error", {})
                  /\ UNCHANGED profiles
             ELSE IF hit = {}
             THEN /\ resp' = Response(by, "profiles.update", "denied", {})
                  /\ UNCHANGED profiles
             ELSE IF ~PartnerForeignKey(val)
             THEN /\ resp' = Response(by, "profiles.update", "fk_violation", {})
                  /\ UNCHANGED profiles
             ELSE /\ profiles' = [p \in DOMAIN profiles |->
                                     IF p \in hit
                                     THEN [profiles[p] EXCEPT !.partner_id = val]
                                     ELSE profiles[p]]
                  /\ resp' = Response(by, "profiles.update", "ok", {})
        /\ UNCHANGED << journal_entries, mood_entries, shared_reflections,
                        entry_access_logs, private_notes,
                        inserting, auth, app, objects >>

\* invite_code TEXT UNIQUE: would storing code for profile id break it
InviteCodeUniqueViolation(id, code) ==
    \E p \in DOMAIN profiles \ {id} : profiles[p].invite_code = code

\* handle_new_user for the new auth.users row u, up to the BEFORE INSERT
\* trigger: set_invite_code draws codes until no profile visible to the
\* transaction has the code drawn; rows of transactions still open are not
\* visible to it
CreateProfileTrigger(u) ==
    /\ u \notin DOMAIN profiles
    /\ \A row \in inserting : row.id # u
    /\ \E code \in generate_invite_code :
          /\ ~\E p \in DOMAIN profiles : profiles[p].invite_code = code
          /\ inserting' = inserting \cup {[id |-> u, invite_code |-> code]}
    /\ resp' = Response(SERVICE, "set_invite_code", "ok", {u})
    /\ UNCHANGED << profiles, journal_entries, mood_entries, shared_reflections,
                    entry_access_logs, private_notes, auth, app, objects >>

\* the INSERT INTO profiles of handle_new_user itself: the row is stored unless
\* the unique index on invite_code rejects it, which fails the registration
CreateProfileInsert(u) ==
    /\ \E row \in inserting :
          /\ row.id = u
          /\ inserting' = inserting \ {row}
          /\ IF InviteCodeUniqueViolation(u, row.invite_code)
               THEN /\ resp' = Response(SERVICE, "profiles.create", "conflict", {u})
                    /\ UNCHANGED profiles
               ELSE /\ profiles' =
                          [p \in DOMAIN profiles \cup {u} |->
                              IF p = u
                              THEN [partner_id |-> NULL, invite_code |-> row.invite_code]
                              ELSE profiles[p]]
                    /\ resp' = Response(SERVICE, "profiles.create", "ok", {u})
    /\ UNCHANGED << journal_entries, mood_entries, shared_reflections,
                    entry_access_logs, private_notes, auth, app, objects >>

\* UPDATE profiles SET invite_code = val, by an end user
ProfileUpdateInviteCode(by, val) ==
    LET hit == {p \in DOMAIN profiles : ProfileUpdateUsing(by, p)}
    IN  /\ IF hit = {}
             THEN /\ resp' = Response(by, "profiles.update", "denied", {})
                  /\ UNCHANGED profiles
             ELSE IF \E p \in hit : InviteCodeUniqueViolation(p, val)
             THEN /\ resp' = Response(by, "profiles.update", "conflict", {})
                  /\ UNCHANGED profiles
             ELSE /\ profiles' = [p \in DOMAIN profiles |->
                                     IF p \in hit
                                     THEN [profiles[p] EXCEPT !.invite_code = val]
                                     ELSE profiles[p]]
                  /\ resp' = Response(by, "profiles.update", "ok", {})
        /\ UNCHANGED << journal_entries, mood_entries, shared_reflections,
                        entry_access_logs, private_notes, inserting, auth, app, objects >>

-----------------------------------------------------------------------------
(* shared_reflections: constraint, policies and requests.  A row is           *)
(* [date, user_ids, reflection]; user_ids is an array, compared element by     *)
(* element in order, as the UNIQUE constraint compares it.                     *)

\* the requesters of the reflection store: end users, signed in or not, and the
\* service key
Requesters == Users \cup {ANON, SERVICE}

Range(f) == {f[i] : i \in DOMAIN f}

\* UNIQUE(date, user_ids): would adding row to rows break it
ReflectionUniqueViolation(rows, row) ==
    \E r \in rows : r.date = row.date /\ r.user_ids = row.user_ids

\* "Service role can manage reflections": FOR ALL USING, so it is also the
\* check of an inserted or updated row
ReflectionManageUsing(by) == AuthRole(by) = "service_role"

\* "Users can view reflections that include them", or the FOR ALL policy
ReflectionSelectUsingMutant(by, row) ==
    \/ AuthUid(by) # NULL
    \/ ReflectionManageUsing(by)

ReflectionSelectUsing(by, row) ==
    \/ AuthUid(by) \in Range(row.user_ids)
    \/ ReflectionManageUsing(by)

\* the policies that admit an inserted row
ReflectionInsertCheckMutant(by, row) ==
    \/ AuthUid(by) \in Range(row.user_ids)
    \/ ReflectionManageUsing(by)

ReflectionInsertCheck(by, row) == ReflectionManageUsing(by)

ReflectionRow(date, user_ids, reflection) ==
    [date |-> date, user_ids |-> user_ids, reflection |-> reflection]

\* INSERT INTO shared_reflections
ReflectionInsert(by, date, user_ids, reflection) ==
    LET row == ReflectionRow(date, user_ids, reflection)
    IN  /\ IF ~ReflectionInsertCheck(by, row)
             THEN /\ resp' = Response(by, "reflections.insert", "denied", {})
                  /\ UNCHANGED shared_reflections
             ELSE IF ReflectionUniqueViolation(shared_reflections, row)
             THEN /\ resp' = Response(by, "reflections.insert", "conflict", {})
                  /\ UNCHANGED shared_reflections
             ELSE /\ Cardinality(shared_reflections) < MaxReflections
                  /\ shared_reflections' = shared_reflections \cup {row}
                  /\ resp' = Response(by, "reflections.insert", "ok", {})
        /\ UNCHANGED << profiles, journal_entries, mood_entries,
                        entry_access_logs, private_notes,
                        inserting, auth, app, objects >>

\* UPDATE shared_reflections SET reflection = val WHERE date = .. AND user_ids = ..
ReflectionUpdate(by, date, user_ids, val) ==
    LET hit == {r \in shared_reflections :
                   /\ r.date = date /\ r.user_ids = user_ids
                   /\ ReflectionSelectUsing(by, r) /\ ReflectionManageUsing(by)}
    IN  /\ IF hit = {} \/ ~ReflectionManageUsing(by)
             THEN /\ resp' = Response(by, "reflections.update", "denied", {})
                  /\ UNCHANGED shared_reflections
             ELSE /\ shared_reflections' =
                        (shared_reflections \ hit)
                           \cup {[r EXCEPT !.reflection = val] : r \in hit}
                  /\ resp' = Response(by, "reflections.update", "ok", {})
        /\ UNCHANGED << profiles, journal_entries, mood_entries,
                        entry_access_logs, private_notes,
                        inserting, auth, app, objects >>

\* DELETE FROM shared_reflections WHERE date = .. AND user_ids = ..
ReflectionDelete(by, date, user_ids) ==
    LET hit == {r \in shared_reflections :
                   /\ r.date = date /\ r.user_ids = user_ids
                   /\ ReflectionSelectUsing(by, r) /\ ReflectionManageUsing(by)}
    IN  /\ IF hit = {}
             THEN /\ resp' = Response(by, "reflections.delete", "denied", {})
                  /\ UNCHANGED shared_reflections
             ELSE /\ shared_reflections' = shared_reflections \ hit
                  /\ resp' = Response(by, "reflections.delete", "ok", {})
        /\ UNCHANGED << profiles, journal_entries, mood_entries,
                        entry_access_logs, private_notes,
                        inserting, auth, app, objects >>

\* SELECT * FROM shared_reflections: the rows the policies let through
ReflectionSelect(by) ==
    /\ resp' = Response(by, "reflections.select", "ok",
                        {r \in shared_reflections : ReflectionSelectUsing(by, r)})
    /\ UNCHANGED << profiles, journal_entries, mood_entries, shared_reflections,
                    entry_access_logs, private_notes,
                    inserting, auth, app, objects >>

\* the contract of the API behind POST /api/generate-reflection/{date}: the
\* requester is linked, both partners have a journal entry dated date, and the
\* pair has no reflection for date yet
GenerationAccepted(by, date) ==
    /\ by \in DOMAIN profiles
    /\ profiles[by].partner_id \in DOMAIN profiles
    /\ profiles[by].partner_id # by
    /\ \E e \in journal_entries : e.user_id = by /\ e.date = date
    /\ \E e \in journal_entries : e.user_id = profiles[by].partner_id /\ e.date = date
    /\ ~\E r \in shared_reflections :
           r.date = date /\ Range(r.user_ids) = {by, profiles[by].partner_id}

\* generateReflection of the client: POST /api/generate-reflection/{date}; on
\* acceptance the API stores the reflection of the pair with the service key
GenerateReflection(by, date) ==
    /\ IF GenerationAccepted(by, date)
         THEN /\ Cardinality(shared_reflections) < MaxReflections
              /\ \E ids \in {<< by, profiles[by].partner_id >>,
                             << profiles[by].partner_id, by >>} :
                    shared_reflections' =
                        shared_reflections \cup {ReflectionRow(date, ids, "r1")}
              /\ resp' = Response(by, "generate-reflection", "ok", {})
         ELSE /\ UNCHANGED shared_reflections
              /\ resp' = Response(by, "generate-reflection", "rejected", {})
    /\ UNCHANGED << profiles, journal_entries, mood_entries,
                    entry_access_logs, private_notes,
                    inserting, auth, app, objects >>

-----------------------------------------------------------------------------
(* entry_access_logs: constraints, policies and requests *)

EntryTypes == {"journal", "mood"}

\* "Users can view relevant access logs"
LogSelectUsingMutant(by, row) == SqlEq(AuthUid(by), row.entry_owner)

LogSelectUsing(by, row) ==
    \/ SqlEq(AuthUid(by), row.entry_owner)
    \/ SqlEq(AuthUid(by), row.accessed_by)

\* "Users can insert access logs"
LogInsertCheckMutant(by, row) ==
    \/ SqlEq(AuthUid(by), row.accessed_by)
    \/ SqlEq(AuthUid(by), row.entry_owner)

LogInsertCheck(by, row) == SqlEq(AuthUid(by), row.accessed_by)

\* no policy is defined FOR UPDATE or FOR DELETE: with row level security
\* enabled no row is visible to either command
LogUpdateUsingMutant(by, row) == SqlEq(AuthUid(by), row.accessed_by)

LogUpdateUsing(by, row) == FALSE

LogDeleteUsing(by, row) == FALSE

LogIds == 1..MaxLogs

LogRow(id, entry_id, entry_type, accessed_by, entry_owner) ==
    [id |-> id, entry_id |-> entry_id, entry_type |-> entry_type,
     accessed_by |-> accessed_by, entry_owner |-> entry_owner]

\* INSERT INTO entry_access_logs by an end user
LogInsert(by, entry_id, entry_type, accessed_by, entry_owner) ==
    LET used == {l.id : l \in entry_access_logs}
        row == LogRow(IF used = LogIds THEN 0 ELSE CHOOSE i \in LogIds : i \notin used,
                      entry_id, entry_type, accessed_by, entry_owner)
    IN  /\ IF ~LogInsertCheck(by, row)
             THEN /\ resp' = Response(by, "logs.insert", "denied", {})
                  /\ UNCHANGED entry_access_logs
             ELSE IF entry_type \notin EntryTypes
             THEN /\ resp' = Response(by, "logs.insert", "check_violation", {})
                  /\ UNCHANGED entry_access_logs
             ELSE IF accessed_by \notin DOMAIN profiles \/ entry_owner \notin DOMAIN profiles
             THEN /\ resp' = Response(by, "logs.insert", "fk_violation", {})
                  /\ UNCHANGED entry_access_logs
             ELSE /\ used # LogIds
                  /\ entry_access_logs' = entry_access_logs \cup {row}
                  /\ resp' = Response(by, "logs.insert", "ok", {})
        /\ UNCHANGED << profiles, journal_entries, mood_entries, shared_reflections,
                        private_notes,
                        inserting, auth, app, objects >>

\* UPDATE entry_access_logs SET entry_owner = val WHERE id = id, by an end user
LogUpdate(by, id, val) ==
    LET hit == {l \in entry_access_logs :
                   l.id = id /\ LogSelectUsing(by, l) /\ LogUpdateUsing(by, l)}
    IN  /\ IF hit = {}
             THEN /\ resp' = Response(by, "logs.update", "denied", {})
                  /\ UNCHANGED entry_access_logs
             ELSE /\ entry_access_logs' =
                        (entry_access_logs \ hit)
                           \cup {[l EXCEPT !.entry_owner = val] : l \in hit}
                  /\ resp' = Response(by, "logs.update", "ok", {})
        /\ UNCHANGED << profiles, journal_entries, mood_entries, shared_reflections,
                        private_notes,
                        inserting, auth, app, objects >>

\* DELETE FROM entry_access_logs WHERE id = id, by an end user
LogDelete(by, id) ==
    LET hit == {l \in entry_access_logs :
                   l.id = id /\ LogSelectUsing(by, l) /\ LogDeleteUsing(by, l)}
    IN  /\ IF hit = {}
             THEN /\ resp' = Response(by, "logs.delete", "denied", {})
                  /\ UNCHANGED entry_access_logs
             ELSE /\ entry_access_logs' = entry_access_logs \ hit
                  /\ resp' = Response(by, "logs.delete", "ok", {})
        /\ UNCHANGED << profiles, journal_entries, mood_entries, shared_reflections,
                        private_notes,
                        inserting, auth, app, objects >>

\* SELECT id FROM entry_access_logs, by an end user
LogSelect(by) ==
    /\ resp' = Response(by, "logs.select", "ok",
                        {l.id : l \in {x \in entry_access_logs : LogSelectUsing(by, x)}})
    /\ UNCHANGED << profiles, journal_entries, mood_entries, shared_reflections,
                    entry_access_logs, private_notes,
                    inserting, auth, app, objects >>

\* DELETE FROM auth.users WHERE id = u, by the administrator: the profile goes
\* with it (ON DELETE CASCADE) and so do the entries, log records and notes that
\* reference the profile; partner_id of another profile referencing it has no
\* ON DELETE action and blocks the delete
DeleteAuthUser(u) ==
    /\ u \in DOMAIN profiles
    /\ IF \E p \in DOMAIN profiles \ {u} : profiles[p].partner_id = u
         THEN /\ resp' = Response(SERVICE, "auth.users.delete", "fk_violation", {})
              /\ UNCHANGED << profiles, journal_entries, mood_entries,
                              entry_access_logs, private_notes >>
         ELSE /\ profiles' = [p \in DOMAIN profiles \ {u} |-> profiles[p]]
              /\ journal_entries' = {e \in journal_entries : e.user_id # u}
              /\ mood_entries' = {e \in mood_entries : e.user_id # u}
              /\ entry_access_logs' =
                    {l \in entry_access_logs : l.accessed_by # u /\ l.entry_owner # u}
              /\ private_notes' = {n \in private_notes : n.user_id # u}
              /\ resp' = Response(SERVICE, "auth.users.delete", "ok", {u})
    /\ UNCHANGED << shared_reflections, inserting, auth, app, objects >>

-----------------------------------------------------------------------------
(* private_notes: constraint, policies and requests.  A row is                *)
(* [user_id, entry_id, entry_type, note_content].                              *)

\* UNIQUE(user_id, entry_id, entry_type): would adding row to rows break it
NoteUniqueViolation(rows, row) ==
    \E n \in rows : /\ n.user_id = row.user_id
                    /\ n.entry_id = row.entry_id
                    /\ n.entry_type = row.entry_type

\* "Users can view own private notes"
NoteSelectUsingMutant(by, row) ==
    \/ SqlEq(AuthUid(by), row.user_id)
    \/ \E e \in journal_entries : e.id = row.entry_id /\ SqlEq(AuthUid(by), e.user_id)

NoteSelectUsing(by, row) == SqlEq(AuthUid(by), row.user_id)

\* "Users can insert own private notes"
NoteInsertCheck(by, row) == SqlEq(AuthUid(by), row.user_id)

\* "Users can update own private notes": USING, applied to the updated row as well
NoteUpdateUsing(by, row) == SqlEq(AuthUid(by), row.user_id)

\* "Users can delete own private notes"
NoteDeleteUsing(by, row) == SqlEq(AuthUid(by), row.user_id)

NoteRow(user_id, entry_id, entry_type, note_content) ==
    [user_id |-> user_id, entry_id |-> entry_id, entry_type |-> entry_type,
     note_content |-> note_content]

\* INSERT INTO private_notes by an end user
NoteInsert(by, user_id, entry_id, entry_type, note_content) ==
    LET row == NoteRow(user_id, entry_id, entry_type, note_content)
    IN  /\ IF ~NoteInsertCheck(by, row)
             THEN /\ resp' = Response(by, "notes.insert", "denied", {})
                  /\ UNCHANGED private_notes
             ELSE IF NoteUniqueViolation(private_notes, row)
             THEN /\ resp' = Response(by, "notes.insert", "conflict", {})
                  /\ UNCHANGED private_notes
             ELSE /\ Cardinality(private_notes) < MaxNotes
                  /\ private_notes' = private_notes \cup {row}
                  /\ resp' = Response(by, "notes.insert", "ok", {})
        /\ UNCHANGED << profiles, journal_entries, mood_entries, shared_reflections,
                        entry_access_logs,
                        inserting, auth, app, objects >>

\* UPDATE private_notes SET col = val WHERE user_id = .. AND entry_id = .. AND
\* entry_type = .., by an end user
NoteUpdate(by, user_id, entry_id, entry_type, col, val) ==
    LET hit == {n \in private_notes :
                   /\ n.user_id = user_id /\ n.entry_id = entry_id
                   /\ n.entry_type = entry_type
                   /\ NoteSelectUsing(by, n) /\ NoteUpdateUsing(by, n)}
        old == CHOOSE n \in hit : TRUE
        new == [old EXCEPT ![col] = val]
    IN  /\ IF hit = {}
             THEN /\ resp' = Response(by, "notes.update", "denied", {})
                  /\ UNCHANGED private_notes
             ELSE IF ~NoteUpdateUsing(by, new)
             THEN /\ resp' = Response(by, "notes.update", "denied", {})
                  /\ UNCHANGED private_notes
             ELSE IF NoteUniqueViolation(private_notes \ hit, new)
             THEN /\ resp' = Response(by, "notes.update", "conflict", {})
                  /\ UNCHANGED private_notes
             ELSE /\ private_notes' = (private_notes \ hit) \cup {new}
                  /\ resp' = Response(by, "notes.update", "ok", {})
        /\ UNCHANGED << profiles, journal_entries, mood_entries, shared_reflections,
                        entry_access_logs,
                        inserting, auth, app, objects >>

\* DELETE FROM private_notes WHERE user_id = .. AND entry_id = .. AND entry_type = ..
NoteDelete(by, user_id, entry_id, entry_type) ==
    LET hit == {n \in private_notes :
                   /\ n.user_id = user_id /\ n.entry_id = entry_id
                   /\ n.entry_type = entry_type
                   /\ NoteSelectUsing(by, n) /\ NoteDeleteUsing(by, n)}
    IN  /\ IF hit = {}
             THEN /\ resp' = Response(by, "notes.delete", "denied", {})
                  /\ UNCHANGED private_notes
             ELSE /\ private_notes' = private_notes \ hit
                  /\ resp' = Response(by, "notes.delete", "ok", {})
        /\ UNCHANGED << profiles, journal_entries, mood_entries, shared_reflections,
                        entry_access_logs,
                        inserting, auth, app, objects >>

\* SELECT * FROM private_notes WHERE entry_id = entry_id, by an end user
NoteSelect(by, entry_id) ==
    /\ resp' = Response(by, "notes.select", "ok",
                        {n \in private_notes :
                            n.entry_id = entry_id /\ NoteSelectUsing(by, n)})
    /\ UNCHANGED << profiles, journal_entries, mood_entries, shared_reflections,
                    entry_access_logs, private_notes,
                    inserting, auth, app, objects >>

-----------------------------------------------------------------------------
(* storage.objects of the bucket 'audio-journal': policies and requests.  A     *)
(* name is the sequence of its path segments.                                  *)

\* storage.foldername(name): the segments of name but the last
foldername(name) == SubSeq(name, 1, Len(name) - 1)

\* (storage.foldername(name))[1], NULL for a name without folder
FirstFolder(name) == IF Len(foldername(name)) >= 1 THEN foldername(name)[1] ELSE NULL

\* "Users can upload own audio files"
ObjectInsertCheck(by, row) ==
    /\ row.bucket_id = "audio-journal"
    /\ SqlEq(AuthUid(by), FirstFolder(row.name))

\* "Users can view own and partner audio files"
ObjectSelectUsing(by, row) ==
    /\ row.bucket_id = "audio-journal"
    /\ \/ SqlEq(AuthUid(by), FirstFolder(row.name))
       \/ (by \in DOMAIN profiles
              /\ SqlEq(FirstFolder(row.name), profiles[by].partner_id))

\* "Users can update own audio files": USING, applied to the updated row as well
ObjectUpdateUsing(by, row) ==
    /\ row.bucket_id = "audio-journal"
    /\ SqlEq(AuthUid(by), FirstFolder(row.name))

\* "Users can delete own audio files"
ObjectDeleteUsing(by, row) ==
    /\ row.bucket_id = "audio-journal"
    /\ SqlEq(AuthUid(by), FirstFolder(row.name))

ObjectRow(bucket_id, name) == [bucket_id |-> bucket_id, name |-> name]

\* INSERT INTO storage.objects, by an end user
ObjectInsert(by, bucket_id, name) ==
    LET row == ObjectRow(bucket_id, name)
    IN  /\ IF ~ObjectInsertCheck(by, row)
             THEN /\ resp' = Response(by, "objects.insert", "denied", {})
                  /\ UNCHANGED objects
             ELSE IF row \in objects
             THEN /\ resp' = Response(by, "objects.insert", "conflict", {})
                  /\ UNCHANGED objects
             ELSE /\ objects' = objects \cup {row}
                  /\ resp' = Response(by, "objects.insert", "ok", {})
        /\ UNCHANGED << profiles, journal_entries, mood_entries, shared_reflections,
                        entry_access_logs, private_notes, inserting, auth, app >>

\* UPDATE storage.objects SET name = val [WHERE name = name], by an end user;
\* name is Blank for the statement without WHERE clause
ObjectUpdate(by, name, val) ==
    LET hit == {o \in objects :
                   /\ ObjectUpdateUsing(by, o)
                   /\ name # Blank => (o.name = name /\ ObjectSelectUsing(by, o))}
        new == {[o EXCEPT !.name = val] : o \in hit}
    IN  /\ IF name # Blank /\ PolicyRecursion("storage.objects", {})
             THEN /\ resp' = Response(by, "objects.update", "error", {})
                  /\ UNCHANGED objects
             ELSE IF hit = {} \/ \E o \in new : ~ObjectUpdateUsing(by, o)
             THEN /\ resp' = Response(by, "objects.update", "denied", {})
                  /\ UNCHANGED objects
             ELSE IF Cardinality(hit) > 1 \/ new \cap (objects \ hit) # {}
             THEN /\ resp' = Response(by, "objects.update", "conflict", {})
                  /\ UNCHANGED objects
             ELSE /\ objects' = (objects \ hit) \cup new
                  /\ resp' = Response(by, "objects.update", "ok", {})
        /\ UNCHANGED << profiles, journal_entries, mood_entries, shared_reflections,
                        entry_access_logs, private_notes, inserting, auth, app >>

\* DELETE FROM storage.objects [WHERE name = name], by an end user
ObjectDelete(by, name) ==
    LET hit == {o \in objects :
                   /\ ObjectDeleteUsing(by, o)
                   /\ name # Blank => (o.name = name /\ ObjectSelectUsing(by, o))}
    IN  /\ IF name # Blank /\ PolicyRecursion("storage.objects", {})
             THEN /\ resp' = Response(by, "objects.delete", "error", {})
                  /\ UNCHANGED objects
             ELSE IF hit = {}
             THEN /\ resp' = Response(by, "objects.delete", "denied", {})
                  /\ UNCHANGED objects
             ELSE /\ objects' = objects \ hit
                  /\ resp' = Response(by, "objects.delete", "ok", {})
        /\ UNCHANGED << profiles, journal_entries, mood_entries, shared_reflections,
                        entry_access_logs, private_notes, inserting, auth, app >>

\* SELECT name FROM storage.objects, by an end user
ObjectSelect(by) ==
    /\ IF PolicyRecursion("storage.objects", {})
         THEN resp' = Response(by, "objects.select", "error", {})
         ELSE resp' = Response(by, "objects.select", "ok",
                         {o \in objects : ObjectSelectUsing(by, o)})
    /\ UNCHANGED << profiles, journal_entries, mood_entries, shared_reflections,
                    entry_access_logs, private_notes, inserting, auth, app, objects >>

-----------------------------------------------------------------------------
(* JournalApp of the client *)

\* the useState values of JournalApp; saves, generations and invites are the
\* calls of saveJournalEntry, generateReflection and invitePartner awaiting a
\* response, fetches the GET requests awaiting theirs
JournalAppInit ==
    [mounted |-> FALSE, journalEntry |-> Blank, selectedMood |-> "",
     selectedDate |-> "d1", calendarData |-> {}, has_partner |-> FALSE,
     inviteCode |-> Blank, showInviteModal |-> FALSE, alert |-> NULL,
     currentView |-> "journal",
     saves |-> {}, generations |-> {}, invites |-> {}, fetches |-> {}]

-----------------------------------------------------------------------------
(* AuthProvider and AuthForm of the client.  auth holds the state of both:     *)
(* localStorage is the item 'token', Authorization the axios default header,   *)
(* deps the token the [token] effect last ran for, me the GET /api/me requests  *)
(* in flight (each carries the header it was sent with), call the login or     *)
(* register call awaiting its response, result what the last call returned,    *)
(* formLoading and error the state of AuthForm.                                *)

\* the bearer tokens the API hands out, and the account each stands for
Tokens == {"ta", "tb"}

TokenUser(t) == IF t = "ta" THEN "ua" ELSE "ub"

\* `Bearer ${token}`
Bearer(t) == << "Bearer", t >>

\* neither login nor register has returned yet
NoResult == [success |-> FALSE, error |-> "none"]

\* no Authorization header
NoHeader == << >>

\* the Authorization headers a request may carry
Headers == {Bearer(t) : t \in Tokens}

\* the detail messages a failed response may carry: none, an empty one, a text
Details == {NULL, "", "Invalid credentials"}

\* useState(null), useState(localStorage.getItem('token')), useState(true),
\* for the content stored of localStorage
AuthProviderInit(stored) ==
    [localStorage |-> stored, token |-> stored, user |-> NULL,
     Authorization |-> NoHeader, loading |-> TRUE, deps |-> "unmounted", me |-> {},
     call |-> NULL, result |-> NoResult, formLoading |-> FALSE, error |-> ""]

\* AuthFlow: which component is rendered
Rendered ==
    IF auth.loading THEN "Loading"
    ELSE IF auth.user # NULL THEN "JournalApp" ELSE "AuthForm"

\* logout()
logoutMutant(a) ==
    [a EXCEPT !.token = NULL, !.user = NULL, !.Authorization = NoHeader]

logout(a) ==
    [a EXCEPT !.localStorage = NULL, !.token = NULL, !.user = NULL,
              !.Authorization = NoHeader]

\* useEffect(..., [token]): runs after mount and after every change of token
TokenEffectMutant ==
    /\ auth.deps # auth.token
    /\ IF auth.token # NULL
         THEN auth' = [auth EXCEPT !.deps = auth.token,
                                   !.Authorization = Bearer(auth.token),
                                   !.me = @ \cup {Bearer(auth.token)}]
         ELSE auth' = [auth EXCEPT !.deps = auth.token]
    /\ resp' = Response(NULL, "effect", "ok", {})
    /\ UNCHANGED << profiles, journal_entries, mood_entries, shared_reflections,
                    entry_access_logs, private_notes, inserting, app, objects >>

TokenEffect ==
    /\ auth.deps # auth.token
    /\ IF auth.token # NULL
         THEN auth' = [auth EXCEPT !.deps = auth.token,
                                   !.Authorization = Bearer(auth.token),
                                   !.me = @ \cup {Bearer(auth.token)}]
         ELSE auth' = [auth EXCEPT !.deps = auth.token, !.loading = FALSE]
    /\ resp' = Response(NULL, "effect", "ok", {})
    /\ UNCHANGED << profiles, journal_entries, mood_entries, shared_reflections,
                    entry_access_logs, private_notes, inserting, app, objects >>

\* fetchUser, after await: GET /api/me sent with header h succeeded
FetchUserOk(h) ==
    /\ h \in auth.me
    /\ auth' = [auth EXCEPT !.me = @ \ {h}, !.user = TokenUser(h[2]),
                            !.loading = FALSE]
    /\ resp' = Response(TokenUser(h[2]), "GET /api/me", "ok", {h[2]})
    /\ UNCHANGED << profiles, journal_entries, mood_entries, shared_reflections,
                    entry_access_logs, private_notes, inserting, app, objects >>

\* fetchUser, after await: GET /api/me sent with header h failed
FetchUserFailed(h) ==
    /\ h \in auth.me
    /\ auth' = [logout([auth EXCEPT !.me = @ \ {h}]) EXCEPT !.loading = FALSE]
    /\ resp' = Response(TokenUser(h[2]), "GET /api/me", "failed", {h[2]})
    /\ UNCHANGED << profiles, journal_entries, mood_entries, shared_reflections,
                    entry_access_logs, private_notes, inserting, app, objects >>

\* the Logout button of JournalApp
Logout ==
    /\ Rendered = "JournalApp"
    /\ auth' = logout(auth)
    /\ resp' = Response(auth.user, "logout", "ok", {})
    /\ UNCHANGED << profiles, journal_entries, mood_entries, shared_reflections,
                    entry_access_logs, private_notes, inserting, app, objects >>

\* handleSubmit of AuthForm up to the await: fn is "login" or "register"
HandleSubmit(fn) ==
    /\ Rendered = "AuthForm"
    /\ ~auth.formLoading
    /\ auth.call = NULL
    /\ auth' = [auth EXCEPT !.formLoading = TRUE, !.error = "", !.call = fn]
    /\ resp' = Response(NULL, fn, "sent", {})
    /\ UNCHANGED << profiles, journal_entries, mood_entries, shared_reflections,
                    entry_access_logs, private_notes, inserting, app, objects >>

\* the fallback message of login and of register
FailedMessage(fn) == IF fn = "login" THEN "Login failed" ELSE "Registration failed"

\* error.response?.data?.detail || fallback
ErrorOf(fn, detail) == IF detail \in {NULL, ""} THEN FailedMessage(fn) ELSE detail

\* login / register after await, the response carrying newToken and its user;
\* then handleSubmit after its await
AuthSucceededMutant(a, newToken) ==
    [a EXCEPT !.token = newToken, !.user = TokenUser(newToken),
              !.Authorization = Bearer(newToken),
              !.result = [success |-> TRUE, error |-> NULL]]

AuthSucceeded(a, newToken) ==
    [a EXCEPT !.localStorage = newToken, !.token = newToken,
              !.user = TokenUser(newToken), !.Authorization = Bearer(newToken),
              !.result = [success |-> TRUE, error |-> NULL]]

LoginOk(newToken) ==
    /\ auth.call \in {"login", "register"}
    /\ auth' = [AuthSucceeded(auth, newToken) EXCEPT !.call = NULL,
                                                     !.formLoading = FALSE]
    /\ resp' = Response(TokenUser(newToken), auth.call, "ok", {newToken})
    /\ UNCHANGED << profiles, journal_entries, mood_entries, shared_reflections,
                    entry_access_logs, private_notes, inserting, app, objects >>

\* login / register after await, the request failed; then handleSubmit
LoginFailed(detail) ==
    /\ auth.call \in {"login", "register"}
    /\ LET result == [success |-> FALSE, error |-> ErrorOf(auth.call, detail)]
       IN  auth' = [auth EXCEPT !.call = NULL, !.result = result,
                                !.error = result.error, !.formLoading = FALSE]
    /\ resp' = Response(NULL, auth.call, "failed", {detail})
    /\ UNCHANGED << profiles, journal_entries, mood_entries, shared_reflections,
                    entry_access_logs, private_notes, inserting, app, objects >>

\* the page is loaded again: the components are constructed anew, localStorage
\* is kept, responses still awaited are never received
Reload ==
    /\ auth' = AuthProviderInit(auth.localStorage)
    /\ app' = JournalAppInit
    /\ resp' = Response(NULL, "reload", "ok", {})
    /\ UNCHANGED << profiles, journal_entries, mood_entries, shared_reflections,
                    entry_access_logs, private_notes, inserting, objects >>

-----------------------------------------------------------------------------
(* JournalApp: mounting, the entry form and saveJournalEntry.  A text is the   *)
(* sequence of its characters.  A call of saveJournalEntry awaiting a response  *)
(* is [step, by, content, date, mood, written]: the request awaited, the        *)
(* identity its requests are sent as, the values of the form the call was made *)
(* with, and the ids of the rows its requests have stored so far.              *)

\* calls of one handler awaiting a response at the same time
MaxInFlight == 2

\* String.prototype.trim
RECURSIVE TrimLeft(_)
TrimLeft(t) == IF t # Blank /\ Head(t) = " " THEN TrimLeft(Tail(t)) ELSE t

RECURSIVE TrimRight(_)
TrimRight(t) ==
    IF t # Blank /\ t[Len(t)] = " " THEN TrimRight(SubSeq(t, 1, Len(t) - 1)) ELSE t

trim(t) == TrimRight(TrimLeft(t))

\* the identity the API sees in a request sent now: that of the token in the
\* Authorization header
Requester ==
    IF auth.Authorization = NoHeader THEN ANON ELSE TokenUser(auth.Authorization[2])

\* the ways a request ends: handled by the API, or failed before it got there
Outcomes == {"handled", "failed"}

\* useEffect(..., []) of JournalApp, when AuthFlow renders it
MountJournalApp ==
    /\ Rendered = "JournalApp"
    /\ ~app.mounted
    /\ app' = [JournalAppInit EXCEPT
                  !.mounted = TRUE,
                  !.fetches = {[what |-> "stats", by |-> Requester],
                               [what |-> "calendar", by |-> Requester]}]
    /\ resp' = Response(Requester, "mount", "ok", {})
    /\ UNCHANGED << profiles, journal_entries, mood_entries, shared_reflections,
                    entry_access_logs, private_notes, inserting, auth, objects >>

\* AuthFlow stops rendering JournalApp: its state is dropped
UnmountJournalApp ==
    /\ Rendered # "JournalApp"
    /\ app.mounted
    /\ app' = JournalAppInit
    /\ resp' = Response(NULL, "unmount", "ok", {})
    /\ UNCHANGED << profiles, journal_entries, mood_entries, shared_reflections,
                    entry_access_logs, private_notes, inserting, auth, objects >>

\* onChange of the textarea, the mood buttons and the date input
SetJournalEntry(text) ==
    /\ app.mounted
    /\ app' = [app EXCEPT !.journalEntry = text]
    /\ resp' = Response(NULL, "input", "ok", {})
    /\ UNCHANGED << profiles, journal_entries, mood_entries, shared_reflections,
                    entry_access_logs, private_notes, inserting, auth, objects >>

SetSelectedMood(mood) ==
    /\ app.mounted
    /\ app' = [app EXCEPT !.selectedMood = mood]
    /\ resp' = Response(NULL, "input", "ok", {})
    /\ UNCHANGED << profiles, journal_entries, mood_entries, shared_reflections,
                    entry_access_logs, private_notes, inserting, auth, objects >>

SetSelectedDate(date) ==
    /\ app.mounted
    /\ app' = [app EXCEPT !.selectedDate = date]
    /\ resp' = Response(NULL, "input", "ok", {})
    /\ UNCHANGED << profiles, journal_entries, mood_entries, shared_reflections,
                    entry_access_logs, private_notes, inserting, auth, objects >>

\* saveJournalEntry up to its first await
SaveJournalEntry ==
    /\ app.mounted
    /\ Cardinality(app.saves) < MaxInFlight
    /\ IF trim(app.journalEntry) = Blank
         THEN /\ resp' = Response(Requester, "saveJournalEntry", "returned", {})
              /\ UNCHANGED app
         ELSE /\ app' = [app EXCEPT !.saves = @ \cup
                           {[step |-> "journal", by |-> Requester,
                             content |-> app.journalEntry, date |-> app.selectedDate,
                             mood |-> app.selectedMood, written |-> {}]}]
              /\ resp' = Response(Requester, "saveJournalEntry", "sent", {})
    /\ UNCHANGED << profiles, journal_entries, mood_entries, shared_reflections,
                    entry_access_logs, private_notes, inserting, auth, objects >>

\* POST /api/journal and POST /api/mood of the API: the record is stored for
\* the requester unless the requester is unknown or has a record for the date
ApiAccepts(by, rows, date) ==
    /\ by \in DOMAIN profiles
    /\ UsedIds # Ids
    /\ ~\E e \in rows : e.user_id = by /\ e.date = date

\* saveJournalEntry after its last await succeeded
SaveSucceeded(a, c) ==
    [a EXCEPT !.saves = @ \ {c},
              !.journalEntry = Blank, !.selectedMood = "",
              !.fetches = @ \cup {[what |-> "stats", by |-> Requester],
                                  [what |-> "calendar", by |-> Requester]},
              !.alert = "Entry saved successfully!"]

\* the catch of saveJournalEntry
SaveFailed(a, c) ==
    [a EXCEPT !.saves = @ \ {c}, !.alert = "Failed to save entry"]

\* saveJournalEntry after await axios.post(`${API}/journal`, ...)
SaveJournalResponseMutant(c, outcome) ==
    /\ c \in app.saves
    /\ c.step = "journal"
    /\ IF outcome = "handled" /\ ApiAccepts(c.by, journal_entries, c.date)
         THEN /\ journal_entries' = journal_entries \cup
                     {JournalRow(FreshId, c.by, c.date, c.content, {})}
              /\ app' = [app EXCEPT !.saves = (@ \ {c}) \cup
                            {[c EXCEPT !.step = "mood", !.written = {FreshId}]}]
              /\ resp' = Response(c.by, "POST /api/journal", "ok", {})
         ELSE /\ UNCHANGED journal_entries
              /\ app' = SaveFailed(app, c)
              /\ resp' = Response(c.by, "POST /api/journal", "failed",
                                  {"Failed to save entry"})
    /\ UNCHANGED << profiles, mood_entries, shared_reflections,
                    entry_access_logs, private_notes, inserting, auth, objects >>

SaveJournalResponse(c, outcome) ==
    /\ c \in app.saves
    /\ c.step = "journal"
    /\ IF outcome = "handled" /\ ApiAccepts(c.by, journal_entries, c.date)
         THEN /\ journal_entries' = journal_entries \cup
                     {JournalRow(FreshId, c.by, c.date, c.content, {})}
              /\ IF c.mood # ""
                   THEN app' = [app EXCEPT !.saves = (@ \ {c}) \cup
                                   {[c EXCEPT !.step = "mood", !.written = {FreshId}]}]
                   ELSE app' = SaveSucceeded(app, c)
              /\ resp' = Response(c.by, "POST /api/journal", "ok",
                            IF c.mood # "" THEN {} ELSE {"Entry saved successfully!"})
         ELSE /\ UNCHANGED journal_entries
              /\ app' = SaveFailed(app, c)
              /\ resp' = Response(c.by, "POST /api/journal", "failed",
                                  {"Failed to save entry"})
    /\ UNCHANGED << profiles, mood_entries, shared_reflections,
                    entry_access_logs, private_notes, inserting, auth, objects >>

\* saveJournalEntry after await axios.post(`${API}/mood`, ...)
SaveMoodResponse(c, outcome) ==
    /\ c \in app.saves
    /\ c.step = "mood"
    /\ IF outcome = "handled" /\ ApiAccepts(c.by, mood_entries, c.date)
         THEN /\ mood_entries' = mood_entries \cup
                     {MoodRow(FreshId, c.by, c.date, c.mood, {})}
              /\ app' = SaveSucceeded(app, c)
              /\ resp' = Response(c.by, "POST /api/mood", "ok",
                                  {"Entry saved successfully!"})
         ELSE /\ UNCHANGED mood_entries
              /\ app' = SaveFailed(app, c)
              /\ resp' = Response(c.by, "POST /api/mood", "failed",
                                  {"Failed to save entry"})
    /\ UNCHANGED << profiles, journal_entries, shared_reflections,
                    entry_access_logs, private_notes, inserting, auth, objects >>

\* GET /api/stats and GET /api/calendar/{month} of the API, for requester by:
\* whether by has a partner; one record per date that has an entry of by or of
\* by's partner
StatsOf(by) == by \in DOMAIN profiles /\ profiles[by].partner_id # NULL

HasEntry(u, date) == \E e \in journal_entries : e.user_id = u /\ e.date = date

HasReflection(u, date) ==
    \E r \in shared_reflections : r.date = date /\ u \in Range(r.user_ids)

CalendarOf(by) ==
    LET partner == IF by \in DOMAIN profiles THEN profiles[by].partner_id ELSE NULL
    IN  {[date |-> d, my_entry |-> HasEntry(by, d),
          partner_entry |-> partner # NULL /\ HasEntry(partner, d),
          reflection |-> HasReflection(by, d)] :
            d \in {x \in Dates : HasEntry(by, x) \/ (partner # NULL /\ HasEntry(partner, x))}}

\* fetchStats and fetchCalendarData after their await
FetchResponse(f, outcome) ==
    /\ f \in app.fetches
    /\ IF outcome = "handled" /\ f.by \in DOMAIN profiles
         THEN /\ app' = IF f.what = "stats"
                        THEN [app EXCEPT !.fetches = @ \ {f},
                                         !.has_partner = StatsOf(f.by)]
                        ELSE [app EXCEPT !.fetches = @ \ {f},
                                         !.calendarData = CalendarOf(f.by)]
              /\ resp' = Response(f.by, "GET", "ok", {})
         ELSE /\ app' = [app EXCEPT !.fetches = @ \ {f}]
              /\ resp' = Response(f.by, "GET", "failed", {})
    /\ UNCHANGED << profiles, journal_entries, mood_entries, shared_reflections,
                    entry_access_logs, private_notes, inserting, auth, objects >>

-----------------------------------------------------------------------------
(* JournalApp: the two views and generateReflection *)

\* new Date().toISOString().split('T')[0]
Today == "d1"

\* the navigation buttons
SetCurrentView(view) ==
    /\ app.mounted
    /\ app' = [app EXCEPT !.currentView = view]
    /\ resp' = Response(NULL, "input", "ok", {})
    /\ UNCHANGED << profiles, journal_entries, mood_entries, shared_reflections,
                    entry_access_logs, private_notes, inserting, auth, objects >>

\* is the button that calls generateReflection(date) rendered: in the journal
\* view for today's record, in the calendar view for every record
GenerateButton(date) ==
    \E day \in app.calendarData :
        /\ day.date = date
        /\ app.currentView = "journal" => date = Today
        /\ day.my_entry
        /\ day.partner_entry
        /\ ~day.reflection

\* generateReflection(date) up to its await
GenerateClick(date) ==
    /\ app.mounted
    /\ GenerateButton(date)
    /\ Cardinality(app.generations) < MaxInFlight
    /\ app' = [app EXCEPT !.generations = @ \cup {[by |-> Requester, date |-> date]}]
    /\ resp' = Response(Requester, "generateReflection", "sent", {date})
    /\ UNCHANGED << profiles, journal_entries, mood_entries, shared_reflections,
                    entry_access_logs, private_notes, inserting, auth, objects >>

\* generateReflection after its await: the request was handled by the API,
\* which stores the reflection or rejects the request, or it failed on the way
GenerateResponse(g, outcome) ==
    /\ g \in app.generations
    /\ IF outcome = "handled" /\ GenerationAccepted(g.by, g.date)
         THEN /\ Cardinality(shared_reflections) < MaxReflections
              /\ \E ids \in {<< g.by, profiles[g.by].partner_id >>,
                             << profiles[g.by].partner_id, g.by >>} :
                    shared_reflections' =
                        shared_reflections \cup {ReflectionRow(g.date, ids, "r1")}
              /\ app' = [app EXCEPT
                            !.generations = @ \ {g},
                            !.fetches = @ \cup {[what |-> "calendar", by |-> Requester]},
                            !.alert = "AI Reflection generated successfully!"]
              /\ resp' = Response(g.by, "POST /api/generate-reflection", "ok", {g.date})
         ELSE /\ UNCHANGED shared_reflections
              /\ app' = [app EXCEPT !.generations = @ \ {g},
                                    !.alert = "Failed to generate reflection"]
              /\ resp' = Response(g.by, "POST /api/generate-reflection",
                            IF outcome = "handled" THEN "rejected" ELSE "failed",
                            {g.date})
    /\ UNCHANGED << profiles, journal_entries, mood_entries,
                    entry_access_logs, private_notes, inserting, auth, objects >>

-----------------------------------------------------------------------------
(* JournalApp: the invite modal and invitePartner.  A call of invitePartner    *)
(* awaiting its response is [by, code]: the identity the request was sent as   *)
(* and the invite_code it carries.                                             *)

\* the header button, and the Close and Cancel buttons of the modal
SetShowInviteModal(show) ==
    /\ app.mounted
    /\ app' = [app EXCEPT !.showInviteModal = show]
    /\ resp' = Response(NULL, "input", "ok", {})
    /\ UNCHANGED << profiles, journal_entries, mood_entries, shared_reflections,
                    entry_access_logs, private_notes, inserting, auth, objects >>

\* is the branch of the modal with the code input and the Link Partner button
\* rendered: stats.has_partner is undefined until GET /api/stats has answered
InviteForm == app.showInviteModal /\ ~app.has_partner

\* onChange of the code input
SetInviteCode(text) ==
    /\ app.mounted
    /\ InviteForm
    /\ app' = [app EXCEPT !.inviteCode = text]
    /\ resp' = Response(NULL, "input", "ok", {})
    /\ UNCHANGED << profiles, journal_entries, mood_entries, shared_reflections,
                    entry_access_logs, private_notes, inserting, auth, objects >>

\* invitePartner up to its await
InvitePartnerClick ==
    /\ app.mounted
    /\ InviteForm
    /\ Cardinality(app.invites) < MaxInFlight
    /\ IF trim(app.inviteCode) = Blank
         THEN /\ resp' = Response(Requester, "invitePartner", "returned", {})
              /\ UNCHANGED app
         ELSE /\ app' = [app EXCEPT !.invites = @ \cup
                           {[by |-> Requester, code |-> app.inviteCode]}]
              /\ resp' = Response(Requester, "invitePartner", "sent", {})
    /\ UNCHANGED << profiles, journal_entries, mood_entries, shared_reflections,
                    entry_access_logs, private_notes, inserting, auth, objects >>

\* invitePartner after its await: the request was handled by the API, which
\* links the two profiles or rejects the request, or it failed on the way.
\* After a link the code is cleared, the modal closed and the page loaded anew.
InviteResponse(c, outcome) ==
    /\ c \in app.invites
    /\ LET target == ProfileByInviteCode(c.code)
       IN  IF outcome = "handled" /\ LinkAccepted(c.by, target)
           THEN /\ profiles' = LinkedProfiles(c.by, target)
                /\ auth' = AuthProviderInit(auth.localStorage)
                /\ app' = JournalAppInit
                /\ resp' = Response(c.by, "POST /api/invite-partner", "ok", {target})
           ELSE /\ UNCHANGED << profiles, auth >>
                /\ app' = [app EXCEPT !.invites = @ \ {c},
                                      !.alert = "Failed to invite partner"]
                /\ resp' = Response(c.by, "POST /api/invite-partner",
                              IF outcome = "handled" THEN "rejected" ELSE "failed", {})
    /\ UNCHANGED << journal_entries, mood_entries, shared_reflections,
                    entry_access_logs, private_notes, inserting, objects >>

-----------------------------------------------------------------------------
(* Initial state: the migration has run, every user has registered, no rows *)

Init ==
    /\ profiles = [u \in Users |-> [partner_id |-> NULL, invite_code |-> CodeOf(u)]]
    /\ journal_entries = {}
    /\ mood_entries = {}
    /\ shared_reflections = {}
    /\ entry_access_logs = {}
    /\ private_notes = {}
    /\ resp = Response(NULL, "none", "ok", {})
    /\ inserting = {}
    /\ auth = AuthProviderInit(NULL)
    /\ app = JournalAppInit
    /\ objects = {}

\* the users who write entries
EntryUsers == {"ua", "ub"}

\* the viewer lists a request may carry: empty, or the one viewer ub
ViewerLists == SUBSET {"ub"}

\* the column assignments of an UPDATE of an entry row
EntryAssignments ==
    ({"user_id"} \X EntryUsers) \cup ({"date"} \X Dates)
        \cup ({"shared_with"} \X ViewerLists)

\* the column assignments of an UPDATE of a mood row: owner and date
MoodAssignments == ({"user_id"} \X EntryUsers) \cup ({"date"} \X Dates)

(* The entry stores under the write requests of end users *)
Next ==
    \/ \E by \in EntryUsers, o \in EntryUsers, d \in Dates :
          JournalInsert(by, o, d, "t1", {})
    \/ \E by \in EntryUsers, i \in Ids, a \in EntryAssignments :
          JournalUpdate(by, i, a[1], a[2])
    \/ \E by \in EntryUsers, i \in Ids : JournalDelete(by, i)
    \/ \E by \in EntryUsers, o \in EntryUsers, d \in Dates :
          MoodInsert(by, o, d, "Happy", {})
    \/ \E by \in EntryUsers, i \in Ids, a \in MoodAssignments :
          MoodUpdate(by, i, a[1], a[2])
    \/ \E by \in EntryUsers, i \in Ids : MoodDelete(by, i)

Spec == Init /\ [][Next]_vars

-----------------------------------------------------------------------------
(* Claims on the entry stores *)

OnePerOwnerDate(rows) ==
    \A e1 \in rows, e2 \in rows :
        (e1.user_id = e2.user_id /\ e1.date = e2.date) => e1 = e2

\* what a step may do to a store when it answers an insert or reports a conflict
C1_Step ==
    /\ resp'.status = "conflict"
          => /\ journal_entries' = journal_entries
             /\ mood_entries' = mood_entries
             /\ resp'.op \in {"journal.insert", "journal.update"}
                   => \E e \in journal_entries : e.user_id = resp'.by
             /\ resp'.op \in {"mood.insert", "mood.update"}
                   => \E e \in mood_entries : e.user_id = resp'.by
    /\ resp'.op = "journal.insert" => journal_entries \subseteq journal_entries'
    /\ resp'.op = "mood.insert" => mood_entries \subseteq mood_entries'

\* C1: in every reachable state the journal store and the mood store each hold
\* at most one record per (owner, date); a request answered with a conflict
\* leaves both stores as they were and comes from a user who already owns a
\* record there, and an insert never removes or rewrites an existing record.
C1_DailyUniqueness ==
    /\ [](OnePerOwnerDate(journal_entries) /\ OnePerOwnerDate(mood_entries))
    /\ [][C1_Step]_vars

\* an owner's second insert for a date was refused as a conflict, the first kept
C1_Witness ==
    /\ resp.op = "journal.insert"
    /\ resp.status = "conflict"
    /\ \E e \in journal_entries : e.user_id = resp.by

\* rows of a store that a step removed or rewrote, and rows it added or wrote
Gone(rows, rowsNext) == rows \ rowsNext

Come(rows, rowsNext) == rowsNext \ rows

C6_Step ==
    /\ \A e \in Gone(journal_entries, journal_entries') \cup
                Come(journal_entries, journal_entries') : resp'.by = e.user_id
    /\ \A e \in Gone(mood_entries, mood_entries') \cup
                Come(mood_entries, mood_entries') : resp'.by = e.user_id
    /\ \A e \in journal_entries, f \in journal_entries' :
          e.id = f.id => e.user_id = f.user_id
    /\ \A e \in mood_entries, f \in mood_entries' :
          e.id = f.id => e.user_id = f.user_id

\* C6: every step that inserts, rewrites or deletes a journal or mood row is a
\* request of that row's owner, before and after the step: a listed viewer
\* changes nothing, nobody inserts a row owned by another identity, and no
\* update changes a row's owner.
C6_WritesByOwnerOnly == [][C6_Step]_vars

\* a viewer listed on every stored journal entry, owning none, had an update refused
C6_Witness ==
    /\ resp.op = "journal.update"
    /\ resp.status = "denied"
    /\ mood_entries = {}
    /\ {e.id : e \in journal_entries} = Ids
    /\ \A e \in journal_entries : e.user_id # resp.by /\ resp.by \in e.shared_with

-----------------------------------------------------------------------------
(* Sharing and reading entries: linking, inserts, changes of shared_with, selects *)

NextRead ==
    \/ \E by \in EntryUsers, u \in EntryUsers : InvitePartner(by, CodeOf(u))
    \/ \E by \in EntryUsers, d \in Dates : JournalInsert(by, by, d, "t1", {})
    \/ \E by \in EntryUsers, i \in Ids, sw \in ViewerLists :
          JournalUpdate(by, i, "shared_with", sw)
    \/ \E by \in EntryUsers : JournalSelect(by)
    \/ \E by \in EntryUsers, d \in Dates : MoodInsert(by, by, d, "Happy", {})
    \/ \E by \in EntryUsers, i \in Ids, sw \in ViewerLists :
          MoodUpdate(by, i, "shared_with", sw)
    \/ \E by \in EntryUsers : MoodSelect(by)

SpecRead == Init /\ [][NextRead]_vars

\* C3: a select by V returns an entry V does not own exactly when V is in the
\* entry's shared_with list, in both stores; the requester's partner link plays
\* no part.
C3_ReadNeedsAllowList ==
    /\ resp.op = "journal.select"
          => \A e \in journal_entries :
                e.user_id # resp.by
                   => (e.id \in resp.rows <=> resp.by \in e.shared_with)
    /\ resp.op = "mood.select"
          => \A e \in mood_entries :
                e.user_id # resp.by
                   => (e.id \in resp.rows <=> resp.by \in e.shared_with)

\* the linked partner V of owner O selects: the entry of O that lists V is
\* returned, the entry of O that does not list V is not
C3_Witness ==
    /\ resp.op = "journal.select"
    /\ \E e1 \in journal_entries, e2 \in journal_entries :
          /\ e1.user_id # resp.by /\ e2.user_id = e1.user_id
          /\ profiles[resp.by].partner_id = e1.user_id
          /\ resp.by \in e1.shared_with /\ e1.id \in resp.rows
          /\ resp.by \notin e2.shared_with /\ e2.id \notin resp.rows

-----------------------------------------------------------------------------
(* The profile store under invite requests and end-user updates of the own row *)

NextProfiles ==
    \/ \E by \in Users, code \in Codes : InvitePartner(by, code)
    \/ \E by \in Users, id \in Users \cup {NULL}, val \in Users \cup {NULL, NoSuchUser} :
          ProfileUpdatePartner(by, id, val)

SpecProfiles == Init /\ [][NextProfiles]_vars

C2_Step ==
    resp'.op = "invite-partner" =>
        /\ resp'.status = "ok" =>
              \E b \in DOMAIN profiles :
                  /\ resp'.rows = {b}
                  /\ b # resp'.by
                  /\ profiles'[resp'.by].partner_id = b
                  /\ profiles'[b].partner_id = resp'.by
        /\ profiles[resp'.by].partner_id # NULL =>
              /\ resp'.status = "rejected"
              /\ profiles' = profiles

C7_NoHalfLink ==
    \A a \in DOMAIN profiles, b \in DOMAIN profiles :
        profiles[a].partner_id = b <=> profiles[b].partner_id = a

C13_Step ==
    \A p \in DOMAIN profiles :
        /\ profiles[p].partner_id # NULL =>
               profiles'[p].partner_id = profiles[p].partner_id
        /\ profiles'[p].partner_id # profiles[p].partner_id =>
               /\ resp'.op = "invite-partner"
               /\ resp'.status = "ok"
               /\ p \in {resp'.by} \cup resp'.rows
               /\ \A q \in {resp'.by} \cup resp'.rows : profiles[q].partner_id = NULL

\* C13: a partner reference never names the profile that holds it, a partner
\* reference that is set is never cleared or changed, and a partner reference
\* changes only in an accepted invite request between two distinct profiles
\* that were both unlinked.
C13_UnlinkedToLinked ==
    /\ [](\A p \in DOMAIN profiles : profiles[p].partner_id # p)
    /\ [][C13_Step]_vars

-----------------------------------------------------------------------------
(* Reading profiles, between invite requests and updates of the own row *)

NextProfileRead ==
    \/ \E by \in Users, u \in Users : InvitePartner(by, CodeOf(u))
    \/ \E by \in Users, val \in Users \cup {NULL} : ProfileUpdatePartner(by, NULL, val)
    \/ \E by \in Users : ProfileSelect(by)

SpecProfileRead == Init /\ [][NextProfileRead]_vars

\* C12: a select of profiles by requester R returns exactly the profiles P with
\* R = P, or P.partner = R, or R.partner = P.
C12_ProfileVisibility ==
    resp.op = "profiles.select" =>
        resp.rows = {p \in DOMAIN profiles :
                        \/ p = resp.by
                        \/ profiles[p].partner_id = resp.by
                        \/ profiles[resp.by].partner_id = p}

-----------------------------------------------------------------------------
(* Linking, journal entries and reflection generation *)

NextGenerate ==
    \/ \E by \in Users, u \in Users : InvitePartner(by, CodeOf(u))
    \/ \E by \in Users, d \in Dates : JournalInsert(by, by, d, "t1", {})
    \/ \E by \in Users, i \in Ids : JournalDelete(by, i)
    \/ \E by \in Users, d \in Dates : GenerateReflection(by, d)

SpecGenerate == Init /\ [][NextGenerate]_vars

\* C5: in every reachable state, each participant of a shared reflection for
\* date D has a journal entry dated D.
C5_ReflectionNeedsBothEntries ==
    \A r \in shared_reflections : \A u \in Range(r.user_ids) :
        \E e \in journal_entries : e.user_id = u /\ e.date = r.date

-----------------------------------------------------------------------------
(* The reflection store under requests of end users and of the service key *)

\* the user_ids arrays a request may carry: ordered pairs of distinct users
UserIdArrays == {p \in Users \X Users : p[1] # p[2]}

Reflections == {"r1", "r2"}

NextReflections ==
    \/ \E by \in Requesters, d \in Dates, ids \in UserIdArrays :
          ReflectionInsert(by, d, ids, "r1")
    \/ \E by \in Requesters, d \in Dates, ids \in UserIdArrays, t \in Reflections :
          ReflectionUpdate(by, d, ids, t)
    \/ \E by \in Requesters, d \in Dates, ids \in UserIdArrays :
          ReflectionDelete(by, d, ids)
    \/ \E by \in Requesters : ReflectionSelect(by)

SpecReflections == Init /\ [][NextReflections]_vars

\* C8: in every reachable state there is at most one shared reflection per
\* (date, unordered pair of participants).
C8_OnePerDatePair ==
    \A r1 \in shared_reflections, r2 \in shared_reflections :
        (r1.date = r2.date /\ Range(r1.user_ids) = Range(r2.user_ids)) => r1 = r2

C9_Step ==
    (shared_reflections' # shared_reflections \/ resp'.status = "ok")
        => (resp'.by # SERVICE => resp'.op = "reflections.select")

\* C9: a select by a requester other than the service role returns exactly the
\* reflections that name the requester in user_ids, and every insert, update
\* and delete of such a requester is denied and leaves the store as it was.
C9_ReflectionAccess ==
    /\ []((resp.op = "reflections.select" /\ resp.by # SERVICE)
             => resp.rows = {r \in shared_reflections : resp.by \in Range(r.user_ids)})
    /\ []((resp.by # SERVICE /\ resp.op \in {"reflections.insert",
             "reflections.update", "reflections.delete"}) => resp.status = "denied")
    /\ [][C9_Step]_vars

\* a participant was refused an update of a reflection that names the participant
C9_Witness ==
    /\ resp.op = "reflections.update"
    /\ resp.status = "denied"
    /\ resp.by \in Users
    /\ shared_reflections # {}
    /\ \A r \in shared_reflections : resp.by \in Range(r.user_ids)

-----------------------------------------------------------------------------
(* The access log under end-user requests *)

NextLogs ==
    \/ \E by \in Users, t \in {"journal", "audio"}, v \in Users,
          o \in Users \cup {NoSuchUser} : LogInsert(by, 1, t, v, o)
    \/ \E by \in Users, i \in LogIds, o \in Users : LogUpdate(by, i, o)
    \/ \E by \in Users, i \in LogIds : LogDelete(by, i)
    \/ \E by \in Users : LogSelect(by)

SpecLogs == Init /\ [][NextLogs]_vars

\* C10: a select of the access log by a user returns exactly the records whose
\* accessed_by or entry_owner is that user, and every record a step adds names
\* the requester of that step as accessed_by.
C10_AccessLogPolicies ==
    /\ [](resp.op = "logs.select"
             => resp.rows = {l.id : l \in {x \in entry_access_logs :
                                resp.by \in {x.accessed_by, x.entry_owner}}})
    /\ [][\A l \in entry_access_logs' \ entry_access_logs :
              l.accessed_by = resp'.by]_vars

\* an entry owner reads the log: the record of the owner's entry, logged by
\* another viewer, is returned; a record between two other users is not
C10_Witness ==
    /\ resp.op = "logs.select"
    /\ \E l1 \in entry_access_logs, l2 \in entry_access_logs :
          /\ l1.entry_owner = resp.by /\ l1.accessed_by # resp.by
          /\ l1.id \in resp.rows
          /\ l2.entry_owner # resp.by /\ l2.accessed_by # resp.by
          /\ l2.id \notin resp.rows

-----------------------------------------------------------------------------
(* The access log under end-user requests and account deletion *)

NextLogStore ==
    \/ \E by \in Users, t \in EntryTypes, v \in Users, o \in EntryUsers :
          LogInsert(by, 1, t, v, o)
    \/ \E by \in Users, i \in LogIds, o \in Users : LogUpdate(by, i, o)
    \/ \E by \in Users, i \in LogIds : LogDelete(by, i)
    \/ \E u \in Users : DeleteAuthUser(u)

SpecLogStore == Init /\ [][NextLogStore]_vars

C11_Step ==
    /\ resp'.by \in Users => entry_access_logs \subseteq entry_access_logs'
    /\ resp'.op \in {"logs.update", "logs.delete"} => resp'.status = "denied"
    /\ \A l \in Gone(entry_access_logs, entry_access_logs') :
          /\ resp'.op = "auth.users.delete"
          /\ resp'.rows \cap {l.accessed_by, l.entry_owner} # {}

\* C11: no end-user request removes or rewrites an access-log record: every
\* update and delete of an end user is denied, every record stored before an
\* end-user request is stored unchanged after it, and a record disappears only
\* in a step that deletes a profile the record references.
C11_AppendOnlyLog == [][C11_Step]_vars

\* the viewer named by a stored record asked to delete it and was denied
C11_Witness ==
    /\ resp.op = "logs.delete"
    /\ resp.status = "denied"
    /\ \E l \in entry_access_logs :
          l.accessed_by = resp.by /\ l.entry_owner = resp.by

-----------------------------------------------------------------------------
(* Private notes on journal entries, under end-user requests *)

NoteContents == {"n1", "n2"}

NoteAssignments == ({"note_content"} \X NoteContents) \cup ({"user_id"} \X EntryUsers)

NextNotes ==
    \/ \E by \in EntryUsers : JournalInsert(by, by, "d1", "t1", {})
    \/ \E by \in EntryUsers, u \in EntryUsers, i \in Ids :
          NoteInsert(by, u, i, "journal", "n1")
    \/ \E by \in EntryUsers, u \in EntryUsers, i \in Ids, a \in NoteAssignments :
          NoteUpdate(by, u, i, "journal", a[1], a[2])
    \/ \E by \in EntryUsers, u \in EntryUsers, i \in Ids :
          NoteDelete(by, u, i, "journal")
    \/ \E by \in EntryUsers, i \in Ids : NoteSelect(by, i)

SpecNotes == Init /\ [][NextNotes]_vars

\* C4: a select of private notes returns only notes authored by the requester,
\* whoever owns the annotated entry, and every step that inserts, rewrites or
\* deletes a note is a request of the note's author.
C4_NotesAuthorOnly ==
    /\ [](resp.op = "notes.select" => \A n \in resp.rows : n.user_id = resp.by)
    /\ [][\A n \in Gone(private_notes, private_notes') \cup
                   Come(private_notes, private_notes') : n.user_id = resp'.by]_vars

\* owner O asked for the notes on O's own entry; the note V wrote on it is not returned
C4_Witness ==
    /\ resp.op = "notes.select"
    /\ \E e \in journal_entries, n \in private_notes :
          /\ e.user_id = resp.by
          /\ n.entry_id = e.id /\ n.entry_type = "journal"
          /\ n.user_id # resp.by
          /\ n \notin resp.rows
    /\ \A n \in private_notes : n.user_id # resp.by
    /\ resp.rows = {}

-----------------------------------------------------------------------------
(* The client signing in and out *)

NextAuth ==
    \/ TokenEffect
    \/ \E h \in Headers : FetchUserOk(h)
    \/ \E h \in Headers : FetchUserFailed(h)
    \/ Logout
    \/ \E fn \in {"login", "register"} : HandleSubmit(fn)
    \/ \E t \in Tokens : LoginOk(t)
    \/ \E d \in Details : LoginFailed(d)
    \/ Reload

SpecAuth == Init /\ [][NextAuth]_vars

LoggedOut ==
    /\ auth.localStorage = NULL
    /\ auth.token = NULL
    /\ auth.user = NULL
    /\ auth.Authorization = NoHeader

C18_Step ==
    resp'.op \in {"login", "register"} =>
        /\ resp'.status = "ok" =>
              \E t \in resp'.rows :
                  /\ auth'.localStorage = t
                  /\ auth'.token = t
                  /\ auth'.Authorization = Bearer(t)
                  /\ auth'.user = TokenUser(t)
                  /\ auth'.result.success
        /\ resp'.status = "failed" =>
              /\ ~auth'.result.success
              /\ \A d \in resp'.rows :
                    auth'.result.error =
                       IF d \notin {NULL, ""} THEN d
                       ELSE IF resp'.op = "login" THEN "Login failed"
                       ELSE "Registration failed"
              /\ auth'.localStorage = auth.localStorage
              /\ auth'.token = auth.token
              /\ auth'.Authorization = auth.Authorization
              /\ auth'.user = auth.user

\* C18: when login or register receives a successful response, the persisted
\* token, the in-memory token, the Authorization header and the user are those
\* of the response and the call returns success; when the request fails, the
\* call returns no success with the server's detail message, or 'Login failed'
\* / 'Registration failed' without one, and the four are as they were.
C18_LoginRegister == [][C18_Step]_vars

\* signed out after a successful registration, a login failed with an empty
\* detail message: the form shows 'Login failed' and nothing is stored
C18_Witness ==
    /\ resp.op = "login"
    /\ resp.status = "failed"
    /\ resp.rows = {""}
    /\ auth.error = "Login failed"
    /\ auth.deps = "tb"
    /\ LoggedOut

\* C19: right after logout, and right after a GET /api/me of fetchUser failed,
\* the persisted token is removed, the in-memory token and the user are null
\* and no Authorization header is set.
C19_LoggedOutAfterFailure ==
    (resp.op = "logout" \/ (resp.op = "GET /api/me" /\ resp.status = "failed"))
        => LoggedOut

\* the page was loaded with a stored token and the GET /api/me sent with it failed
C19_Witness ==
    /\ resp.op = "GET /api/me"
    /\ resp.status = "failed"
    /\ auth.deps \in resp.rows
    /\ auth.result = NoResult
    /\ LoggedOut

\* C23: in every state reached by interleaving login, register, logout, the
\* token effect and the answers to GET /api/me, a non-null user comes with an
\* in-memory token, a persisted token and an Authorization header that are
\* present and carry the same token.
C23_UserHasCredentials ==
    auth.user # NULL =>
        /\ auth.token # NULL
        /\ auth.localStorage = auth.token
        /\ auth.Authorization = Bearer(auth.token)

-----------------------------------------------------------------------------
(* The client signing in and out, where React runs every pending effect and   *)
(* every GET /api/me that keeps being awaited is answered                     *)

FetchUserCompletes == \E h \in Headers : FetchUserOk(h) \/ FetchUserFailed(h)

SpecAuthFair ==
    /\ Init
    /\ [][NextAuth]_vars
    /\ WF_vars(TokenEffect)
    /\ SF_vars(FetchUserCompletes)

\* what AuthFlow shows, from loading and user
C21_Shown ==
    /\ auth.loading => Rendered \notin {"AuthForm", "JournalApp"}
    /\ ~auth.loading => /\ Rendered = "JournalApp" <=> auth.user # NULL
                        /\ Rendered = "AuthForm" <=> auth.user = NULL

\* the form is submitted and the Logout button pressed only where they are shown
C21_Step ==
    /\ (resp'.op \in {"login", "register"} /\ resp'.status = "sent")
          => ~auth.loading /\ auth.user = NULL
    /\ resp'.op = "logout" => ~auth.loading /\ auth.user # NULL
    /\ resp'.op = "reload" => auth'.loading

\* C21: loading is true when the provider is constructed, and from every state
\* where it is true a state follows where it is false, given that the GET
\* /api/me requests are answered (with success or failure); while it is true
\* neither AuthForm nor JournalApp is shown, and while it is false JournalApp is
\* shown exactly when user is non-null and AuthForm exactly when it is null.
C21_LoadingEnds ==
    /\ auth.loading
    /\ []C21_Shown
    /\ [][C21_Step]_vars
    /\ (auth.loading ~> ~auth.loading)

\* the page was loaded with a stored token, the GET /api/me sent with it was
\* answered with the user: loading is over and JournalApp is shown
C21_Witness ==
    /\ resp.op = "GET /api/me"
    /\ resp.status = "ok"
    /\ auth.result = NoResult
    /\ ~auth.loading
    /\ auth.deps = auth.token
    /\ auth.user = TokenUser(auth.token)
    /\ Rendered = "JournalApp"

-----------------------------------------------------------------------------
(* Invite codes: accounts deleted and registered, codes rewritten by owners *)

\* the values an owner writes into invite_code: another profile's code, a
\* generated code, a short lower-case text
WrittenCodes == {CodeOf("ub"), [i \in 1..CodeLength |-> "9"], << "a", "b", "c" >>}

NextInviteCodes ==
    \/ \E u \in Users : DeleteAuthUser(u)
    \/ \E u \in Users : CreateProfileTrigger(u)
    \/ \E u \in Users : CreateProfileInsert(u)
    \/ \E by \in EntryUsers, val \in WrittenCodes : ProfileUpdateInviteCode(by, val)

SpecInviteCodes == Init /\ [][NextInviteCodes]_vars

WellFormedCode(code) ==
    /\ Len(code) = CodeLength
    /\ \A i \in 1..Len(code) : code[i] \in Range(chars)

\* C14: in every reachable state the invite codes of two profiles differ and
\* each is CodeLength characters of A-Z0-9, and no creation of a profile
\* without a code fails on a collision of codes: the code is drawn again.
C14_InviteCodes ==
    /\ [](\A p \in DOMAIN profiles, q \in DOMAIN profiles :
             profiles[p].invite_code = profiles[q].invite_code => p = q)
    /\ [](\A p \in DOMAIN profiles : WellFormedCode(profiles[p].invite_code))
    /\ [][resp'.op = "profiles.create" => resp'.status = "ok"]_vars

-----------------------------------------------------------------------------
(* Audio objects under end-user requests, between invite requests *)

Buckets == {"audio-journal", "other"}

Names == {<< "ua", "f1" >>, << "ua", "f2" >>, << "ub", "f1" >>, << "f1" >>}

NextObjects ==
    \/ \E by \in EntryUsers : InvitePartner(by, CodeOf("ub"))
    \/ \E by \in Users, b \in Buckets, n \in Names : ObjectInsert(by, b, n)
    \/ \E by \in Users, n \in Names \cup {Blank}, v \in Names : ObjectUpdate(by, n, v)
    \/ \E by \in Users, n \in Names \cup {Blank} : ObjectDelete(by, n)
    \/ \E by \in Users : ObjectSelect(by)

SpecObjects == Init /\ [][NextObjects]_vars

\* O's linked partner: each names the other
LinkedPartner(a, b) ==
    /\ a \in DOMAIN profiles /\ b \in DOMAIN profiles
    /\ a # b
    /\ profiles[a].partner_id = b
    /\ profiles[b].partner_id = a

\* C15: every object a request adds, removes or renames lies in the folder of
\* the requester, and a read by R returns exactly the audio objects in the
\* folder of R or of R's linked partner.
C15_AudioByOwner ==
    /\ [][\A o \in Gone(objects, objects') \cup Come(objects, objects') :
              FirstFolder(o.name) = resp'.by]_vars
    /\ [](resp.op = "objects.select" =>
             resp.rows = {o \in objects :
                             /\ o.bucket_id = "audio-journal"
                             /\ \/ FirstFolder(o.name) = resp.by
                                \/ LinkedPartner(resp.by, FirstFolder(o.name))})

-----------------------------------------------------------------------------
(* The client of ua saving entries *)

Texts == {Blank, << " ", " " >>, << "t", " " >>}

MoodNames == {"", "Happy"}

\* the calls of saveJournalEntry that may await a response
SaveCalls ==
    [step : {"journal", "mood"}, by : {"ua"}, content : Texts, date : Dates,
     mood : MoodNames, written : SUBSET Ids]

NextSave ==
    \/ TokenEffect
    \/ HandleSubmit("login")
    \/ LoginOk("ta")
    \/ \E h \in Headers : FetchUserOk(h)
    \/ MountJournalApp
    \/ \E t \in Texts : SetJournalEntry(t)
    \/ \E m \in MoodNames : SetSelectedMood(m)
    \/ \E d \in Dates : SetSelectedDate(d)
    \/ SaveJournalEntry
    \/ \E c \in SaveCalls, o \in Outcomes : SaveJournalResponse(c, o)
    \/ \E c \in SaveCalls, o \in Outcomes : SaveMoodResponse(c, o)

SpecSave == Init /\ [][NextSave]_vars

\* a text with a character that is no white space
NotBlank(text) == \E i \in DOMAIN text : text[i] # " "

C16_Step ==
    \A c \in app.saves \ app'.saves :
        "Failed to save entry" \in resp'.rows =>
            /\ resp'.rows = {"Failed to save entry"}
            /\ app'.saves = app.saves \ {c}
            /\ c.written \cap {e.id : e \in journal_entries' \cup mood_entries'} = {}
            /\ ~\E e \in Come(journal_entries, journal_entries')
                         \cup Come(mood_entries, mood_entries') : e.user_id = c.by
            /\ app'.journalEntry = app.journalEntry
            /\ app'.selectedMood = app.selectedMood
            /\ app'.selectedDate = app.selectedDate

\* C16: when a call of saveJournalEntry ends in failure, it reports the failure
\* once and sends no further request, none of its requests has stored a journal
\* or a mood record, and the entry text, the selected mood and the selected date
\* are as they were.
C16_NoPartialWrite == [][C16_Step]_vars

C20_Step ==
    /\ \A c \in app'.saves \ app.saves :
          IF c.step = "journal"
          THEN /\ resp'.op = "saveJournalEntry"
               /\ NotBlank(app.journalEntry)
               /\ c.written = {}
          ELSE /\ resp'.op = "POST /api/journal"
               /\ resp'.status = "ok"
               /\ c.mood # ""
               /\ \E b \in app.saves \ app'.saves :
                     b.step = "journal" /\ c = [b EXCEPT !.step = "mood",
                                                         !.written = c.written]
    /\ (resp'.op = "saveJournalEntry" /\ ~NotBlank(app.journalEntry)) => app' = app
    /\ resp'.op \in {"POST /api/journal", "POST /api/mood"} =>
          IF /\ resp'.status = "ok"
             /\ \E c \in app.saves \ app'.saves :
                   /\ app'.saves = app.saves \ {c}
                   /\ c.step = "mood" \/ c.mood = ""
          THEN /\ app'.journalEntry = Blank
               /\ app'.selectedMood = ""
               /\ {f.what : f \in app'.fetches} = {"stats", "calendar"}
               /\ app'.alert = "Entry saved successfully!"
          ELSE /\ app'.journalEntry = app.journalEntry
               /\ app'.selectedMood = app.selectedMood
               /\ app'.fetches = app.fetches
               /\ app'.alert # "Entry saved successfully!"
                     \/ app'.alert = app.alert

\* C20: a call of saveJournalEntry sends a request only for an entry text that
\* is not blank, and POST /api/journal first; POST /api/mood is sent only in
\* the step in which the call's journal request succeeded, and only with a mood
\* selected; the form is cleared and stats and calendar are fetched again in
\* the step in which the last request of the call succeeded, and in no other
\* step of a response.
C20_SaveOrdering == [][C20_Step]_vars

\* the mood request of a call succeeded after its journal request: both records
\* are stored, the form is cleared, the fetches are sent
C20_Witness ==
    /\ resp.op = "POST /api/mood"
    /\ resp.status = "ok"
    /\ app.journalEntry = Blank
    /\ app.fetches # {}
    /\ \E e \in journal_entries, m \in mood_entries :
          e.user_id = resp.by /\ m.user_id = resp.by /\ e.date = m.date

-----------------------------------------------------------------------------
(* The client of ua generating reflections, ub writing and deleting entries *)

GenerateCalls == [by : {"ua"}, date : Dates]

Fetches == [what : {"stats", "calendar"}, by : {"ua"}]

NextGenerateClient ==
    \/ InvitePartner("ua", CodeOf("ub"))
    \/ \E by \in EntryUsers : JournalInsert(by, by, Today, << "t" >>, {})
    \/ \E i \in Ids : JournalDelete("ub", i)
    \/ TokenEffect
    \/ HandleSubmit("login")
    \/ LoginOk("ta")
    \/ \E h \in Headers : FetchUserOk(h)
    \/ MountJournalApp
    \/ \E v \in {"journal", "calendar"} : SetCurrentView(v)
    \/ \E f \in Fetches : FetchResponse(f, "handled")
    \/ \E d \in Dates : GenerateClick(d)
    \/ \E g \in GenerateCalls, o \in Outcomes : GenerateResponse(g, o)

SpecGenerateClient == Init /\ [][NextGenerateClient]_vars

C17_Step ==
    /\ \A g \in app'.generations \ app.generations :
          \E day \in app.calendarData :
              day.date = g.date /\ day.my_entry /\ day.partner_entry /\ ~day.reflection
    /\ (resp'.op = "POST /api/generate-reflection" /\ resp'.status # "failed") =>
          \A d \in resp'.rows :
              /\ HasEntry(resp'.by, d)
              /\ profiles[resp'.by].partner_id # NULL
              /\ HasEntry(profiles[resp'.by].partner_id, d)
              /\ ~HasReflection(resp'.by, d)

\* C17: generateReflection(date) is called only for a date whose calendar
\* record has my_entry and partner_entry and no reflection, and when the
\* request is handled both partners have a journal entry for the date and no
\* reflection of the requester exists for it.
C17_GenerateOnlyWhenReady == [][C17_Step]_vars

-----------------------------------------------------------------------------
(* The client of ua linking a partner, ub linking from another client *)

\* what is typed into the code input: nothing, blanks, the code of ub
InviteTexts == {Blank, << " ", " " >>, CodeOf("ub")}

InviteCalls == [by : {"ua"}, code : InviteTexts]

NextInviteClient ==
    \/ \E u \in {"ua", "uc"} : InvitePartner("ub", CodeOf(u))
    \/ TokenEffect
    \/ HandleSubmit("login")
    \/ LoginOk("ta")
    \/ \E h \in Headers : FetchUserOk(h)
    \/ MountJournalApp
    \/ \E f \in Fetches, o \in Outcomes : FetchResponse(f, o)
    \/ \E show \in BOOLEAN : SetShowInviteModal(show)
    \/ \E t \in InviteTexts : SetInviteCode(t)
    \/ InvitePartnerClick
    \/ \E c \in InviteCalls, o \in Outcomes : InviteResponse(c, o)

SpecInviteClient == Init /\ [][NextInviteClient]_vars

C22_Step ==
    /\ \A c \in app'.invites \ app.invites :
          /\ app.showInviteModal /\ ~app.has_partner
          /\ trim(c.code) # Blank
          /\ c.by \in DOMAIN profiles /\ profiles[c.by].partner_id = NULL
    /\ trim(app.inviteCode) = Blank => app'.invites \subseteq app.invites

\* C22: every step that issues POST /api/invite-partner is taken with the
\* invite form shown, has_partner false and a code that does not trim to
\* empty, and the user it is issued for has no partner at that moment; so
\* after a link no later step issues the request.
C22_NoInviteWhenLinked == [][C22_Step]_vars

-----------------------------------------------------------------------------
(* ua writing what the policies let ua write, and reading; ub never names ua *)

WidenNames == {<< "ua", "f1" >>, << "ub", "f1" >>}

NextWiden ==
    \/ \E id \in {NULL, "ua"}, val \in Users \cup {NULL} :
          ProfileUpdatePartner("ua", id, val)
    \/ \E c \in Codes \ {Blank} : ProfileUpdateInviteCode("ua", c)
    \/ \E val \in {NULL, "uc"} : ProfileUpdatePartner("ub", NULL, val)
    \/ \E by \in EntryUsers, n \in WidenNames : ObjectInsert(by, "audio-journal", n)
    \/ \E n \in WidenNames \cup {Blank}, v \in WidenNames : ObjectUpdate("ua", n, v)
    \/ \E n \in WidenNames \cup {Blank} : ObjectDelete("ua", n)
    \/ \E sw \in ViewerLists : JournalInsert("ua", "ua", "d1", "t1", sw)
    \/ ProfileSelect("ua")
    \/ ObjectSelect("ua")

SpecWiden == Init /\ [][NextWiden]_vars

=============================================================================
